---- MODULE Spec2Model ----
(***************************************************************************)
(* Model of .github/actions/auto-backport/action.py: a script that opens   *)
(* a pull request from main to develop unless one with the fixed title is  *)
(* already open or there is nothing to backport.                           *)
(*                                                                         *)
(* A process is one invocation of the script.  Its atomic steps are the    *)
(* module load and the three API calls; an API call is the only point at   *)
(* which another invocation can be interleaved.  The hosting platform is   *)
(* the list of open pull requests; what it answers to a call is chosen     *)
(* nondeterministically among an HTTP error, a transport failure and a 2xx *)
(* response with some body.                                                *)
(***************************************************************************)
EXTENDS Integers, Sequences, FiniteSets, TLC

(* ---------------------------- bounds ----------------------------------- *)
MaxRuns == 2        \* invocations started in one behaviour
MaxOpen == 2        \* pull requests open on the platform initially
MaxCommits == 2     \* length of the commit list of a comparison

(* ------------------------- program constants --------------------------- *)
BRANCH_FROM == "main"
BRANCH_TO == "develop"
PR_TITLE == "[bot] backport " \o BRANCH_FROM \o " to " \o BRANCH_TO
DEFAULT_REPO == "yedpodtrzitko/backport-action"

(* ----------------------------- the world ------------------------------- *)
Procs == {"run_a", "run_b"}

\* os.getenv gives None for a variable that is not set
None == "<None>"
EnvValues == {None, "", "set"}

\* titles an open pull request can carry: the canonical one, one differing
\* in case, one differing in whitespace
Titles == {PR_TITLE, "[Bot] Backport main to develop", PR_TITLE \o " "}

\* one element of the JSON list the pulls endpoint answers with: the keys
\* the object has and its title
Entry(keys, title) == [keys |-> keys, title |-> title]
Summary(title) == Entry({"title", "number", "html_url"}, title)
Entries ==
    {Summary(t) : t \in Titles}
        \cup {Entry({"title", "html_url"}, PR_TITLE), Entry({"number"}, "")}

RECURSIVE SeqsUpTo(_, _)
SeqsUpTo(S, n) ==
    IF n = 0 THEN {<<>>}
    ELSE LET shorter == SeqsUpTo(S, n - 1)
         IN  shorter \cup {Append(s, e) : s \in {t \in shorter : Len(t) = n - 1}, e \in S}

(* --------------------------- HTTP responses ---------------------------- *)
\* response bodies: text that is not JSON, a JSON list, a JSON object
Text == [type |-> "text", items |-> <<>>, keys |-> {}, status |-> "", commits |-> 0]
JList(items) == [type |-> "list", items |-> items, keys |-> {}, status |-> "", commits |-> 0]
JDict(keys, status, commits) ==
    [type |-> "dict", items |-> <<>>, keys |-> keys, status |-> status, commits |-> commits]

ErrCodes == {403, 422, 500}
HttpError(code) == [kind |-> "http", code |-> code, body |-> Text]
TransportError == [kind |-> "transport", code |-> 0, body |-> Text]
Ok(body) == [kind |-> "ok", code |-> 200, body |-> body]
NoResponse == [kind |-> "none", code |-> 0, body |-> Text]
Failures == {HttpError(c) : c \in ErrCodes} \cup {TransportError}

Statuses == {"identical", "ahead", "behind", "diverged"}
ComparisonBodies ==
    {JDict({"status", "commits"}, s, n) : s \in Statuses, n \in 0..MaxCommits}
        \cup {JDict({"status"}, s, 0) : s \in Statuses}
        \cup {JDict({"commits"}, "", MaxCommits)}
        \cup {JList(<<>>), Text}
CreatedBodies ==
    {JDict(k, "", 0) : k \in SUBSET {"number", "html_url"}} \cup {Text}

\* what the platform can answer to each of the three calls
ListResponses(openNow) ==
    Failures \cup {Ok(JList(openNow)), Ok(JDict({"message"}, "", 0)), Ok(Text)}
CompareResponses == Failures \cup {Ok(b) : b \in ComparisonBodies}
CreateResponses == Failures \cup {Ok(b) : b \in CreatedBodies}

(* ------------------------------ state ---------------------------------- *)
VARIABLES
    env,            \* the environment of the invocations: BACKPORT_TOKEN, GITHUB_REPO
    open,           \* platform: the open pull requests, newest first
    nCreated,       \* platform: number of create calls it accepted
    runs,           \* number of invocations started
    pc,             \* per process: idle, check, compare, create, done
    exitCode,       \* per process: exit status once pc is done, -1 before
    GITHUB_TOKEN,   \* per process: module global
    GITHUB_REPO,    \* per process: module global
    calls,          \* per process: the requests sent, in order
    resp,           \* per process: the response received for each call
    log,            \* per process: the diagnostics printed
    accepted,       \* per process: create calls of this run the platform accepted
    faithful        \* platform: every 2xx answer to a list call was the list of open requests

vars == <<env, open, nCreated, runs, pc, exitCode, GITHUB_TOKEN, GITHUB_REPO,
          calls, resp, log, accepted, faithful>>

NoResponses == [list |-> NoResponse, compare |-> NoResponse, create |-> NoResponse]

Fresh ==
    /\ pc = [p \in Procs |-> "idle"]
    /\ exitCode = [p \in Procs |-> -1]
    /\ GITHUB_TOKEN = [p \in Procs |-> ""]
    /\ GITHUB_REPO = [p \in Procs |-> ""]
    /\ calls = [p \in Procs |-> <<>>]
    /\ resp = [p \in Procs |-> NoResponses]
    /\ log = [p \in Procs |-> {}]
    /\ accepted = [p \in Procs |-> 0]

Init ==
    /\ env \in [token : EnvValues, repo : EnvValues]
    /\ open \in SeqsUpTo(Entries, MaxOpen)
    /\ nCreated = 0
    /\ runs = 0
    /\ faithful = TRUE
    /\ Fresh

(* ------------------------------ API client ----------------------------- *)
\* results of a function call: a value, or an exception; msgs is what it printed
Return(v, msgs) == [raised |-> FALSE, exc |-> "", value |-> v, msgs |-> msgs]
Raise(e, msgs) == [raised |-> TRUE, exc |-> e, value |-> Text, msgs |-> msgs]

HINT_403 == "403 error, most likely wrong token perms"
API_ERROR == "GitHub API error"

\* the request _make_request builds
Call(method, repo, endpoint, json) ==
    [method |-> method, url |-> "https://api.github.com/repos/" \o repo \o "/" \o endpoint,
     json |-> json]

\* variant: the HTTP error is printed and an empty object returned
make_request_swallowing(r) ==
    IF r.kind = "http"
    THEN Return(JDict({}, "", 0), {IF r.code = 403 THEN HINT_403 ELSE API_ERROR})
    ELSE IF r.kind = "transport"
    THEN Raise("URLError", {})
    ELSE IF r.body.type = "text"
    THEN Raise("JSONDecodeError", {})
    ELSE Return(r.body, {})

\* _make_request, given the response urlopen gets
make_request(r) ==
    IF r.kind = "http"
    THEN Raise("HTTPError", {IF r.code = 403 THEN HINT_403 ELSE API_ERROR})
    ELSE IF r.kind = "transport"
    THEN Raise("URLError", {})
    ELSE IF r.body.type = "text"
    THEN Raise("JSONDecodeError", {})
    ELSE Return(r.body, {})

compare_commits_call(repo, base, head) ==
    Call("GET", repo, "compare/" \o base \o "..." \o head, <<>>)
compare_commits(r) == make_request(r)

get_pull_requests_call(repo, state) ==
    Call("GET", repo, "pulls?state=" \o state, <<>>)
\* variant: a body that is not a list is iterated as it is
get_pull_requests_unguarded(r) ==
    LET result == make_request(r)
    IN  IF result.raised THEN result
        ELSE IF result.value.type = "list" THEN result
        ELSE Raise("TypeError", {})

get_pull_requests(r) ==
    LET result == make_request(r)
    IN  IF result.raised THEN result
        ELSE IF result.value.type = "list" THEN result
        ELSE Return(JList(<<>>), {})

\* variant: title and body change places
create_pull_request_call_swapped(repo, title, body, head, base) ==
    Call("POST", repo, "pulls",
         <<[title |-> body, body |-> title, head |-> head, base |-> base]>>)

create_pull_request_call(repo, title, body, head, base) ==
    Call("POST", repo, "pulls",
         <<[title |-> title, body |-> body, head |-> head, base |-> base]>>)
create_pull_request(r) == make_request(r)

(* ---------------------------- decision logic --------------------------- *)
\* variant: titles are compared after trimming and lower-casing
Normalized(title) == IF title \in Titles THEN PR_TITLE ELSE title
RECURSIVE scan_titles_fuzzy(_, _)
scan_titles_fuzzy(pull_requests, title) ==
    IF pull_requests = <<>> THEN Return(FALSE, {})
    ELSE LET pr == Head(pull_requests)
         IN  IF "title" \notin pr.keys THEN Raise("KeyError", {})
             ELSE IF Normalized(pr.title) = Normalized(title)
             THEN IF "number" \notin pr.keys THEN Raise("KeyError", {})
                  ELSE Return(TRUE, {})
             ELSE scan_titles_fuzzy(Tail(pull_requests), title)

\* variant: only the first pull request is looked at
scan_titles_first(pull_requests, title) ==
    IF pull_requests = <<>> THEN Return(FALSE, {})
    ELSE LET pr == Head(pull_requests)
         IN  IF "title" \notin pr.keys THEN Raise("KeyError", {})
             ELSE IF pr.title = title
             THEN IF "number" \notin pr.keys THEN Raise("KeyError", {})
                  ELSE Return(TRUE, {})
             ELSE Return(FALSE, {})

\* the for loop of check_existing_pull_request
RECURSIVE scan_titles(_, _)
scan_titles(pull_requests, title) ==
    IF pull_requests = <<>> THEN Return(FALSE, {})
    ELSE LET pr == Head(pull_requests)
         IN  IF "title" \notin pr.keys THEN Raise("KeyError", {})
             ELSE IF pr.title = title
             THEN IF "number" \notin pr.keys THEN Raise("KeyError", {})
                  ELSE Return(TRUE, {})
             ELSE scan_titles(Tail(pull_requests), title)

check_existing_pull_request(title, r) ==
    LET pull_requests == get_pull_requests(r)
    IN  IF pull_requests.raised THEN pull_requests
        ELSE scan_titles(pull_requests.value.items, title)

\* variant: the status behind is not tested
has_commits_to_backport_ignoring_behind(r) ==
    LET comparison == compare_commits(r)
    IN  IF comparison.raised THEN comparison
        ELSE IF comparison.value.type # "dict" THEN Raise("TypeError", {})
        ELSE IF "status" \notin comparison.value.keys THEN Raise("KeyError", {})
        ELSE IF comparison.value.status = "identical" THEN Return(FALSE, {})
        ELSE IF "commits" \notin comparison.value.keys THEN Return(FALSE, {})
        ELSE Return(comparison.value.commits > 0, {})

has_commits_to_backport(r) ==
    LET comparison == compare_commits(r)
    IN  IF comparison.raised THEN comparison
        ELSE IF comparison.value.type # "dict" THEN Raise("TypeError", {})
        ELSE IF "status" \notin comparison.value.keys THEN Raise("KeyError", {})
        ELSE IF comparison.value.status = "identical" THEN Return(FALSE, {})
        ELSE IF comparison.value.status = "behind" THEN Return(FALSE, {})
        ELSE IF "commits" \notin comparison.value.keys THEN Return(FALSE, {})
        ELSE Return(comparison.value.commits > 0, {})

PR_BODY(branch_from, branch_to) ==
    "## Backport from " \o branch_from \o " to " \o branch_to \o "\n\n"
        \o "This pull request was automatically created to backport changes."

\* variant: the branches are passed to compare_commits in the order received
has_commits_to_backport_call_swapped(repo, branch_from, branch_to) ==
    compare_commits_call(repo, branch_from, branch_to)

\* the request has_commits_to_backport sends: compare_commits(branch_to, branch_from)
has_commits_to_backport_call(repo, branch_from, branch_to) ==
    compare_commits_call(repo, branch_to, branch_from)

\* the request create_backport_pull_request sends
create_backport_pull_request_call(repo, branch_from, branch_to) ==
    create_pull_request_call(repo, PR_TITLE, PR_BODY(branch_from, branch_to),
                             branch_from, branch_to)

create_backport_pull_request(r) ==
    LET pull_request == create_pull_request(r)
    IN  IF pull_request.raised THEN pull_request
        ELSE IF pull_request.value.type # "dict" THEN Raise("TypeError", {})
        ELSE IF "number" \notin pull_request.value.keys THEN Raise("KeyError", {})
        ELSE IF "html_url" \notin pull_request.value.keys THEN Raise("KeyError", {})
        ELSE Return(TRUE, {})

(* ------------------------------- steps --------------------------------- *)
\* x or y, for strings and None
Or(x, y) == IF x = None \/ x = "" THEN y ELSE x

\* module load: lines 11-25 and 67, then main() is entered
Load(p) ==
    LET token == Or(env.token, "")
        repo == Or(env.repo, DEFAULT_REPO)
        ok == repo # "" /\ token # ""
    IN  /\ GITHUB_TOKEN' = [GITHUB_TOKEN EXCEPT ![p] = token]
        /\ GITHUB_REPO' = [GITHUB_REPO EXCEPT ![p] = repo]
        /\ pc' = [pc EXCEPT ![p] = IF ok THEN "check" ELSE "done"]
        /\ exitCode' = [exitCode EXCEPT ![p] = IF ok THEN -1 ELSE 1]
        /\ runs' = runs + 1
        /\ UNCHANGED <<env, open, nCreated, calls, resp, log, accepted, faithful>>

\* one invocation at a time: the script is started when no other runs
Start(p) ==
    /\ runs < MaxRuns
    /\ \A q \in Procs : pc[q] = "idle"
    /\ Load(p)

\* invocations started regardless of each other
StartConcurrently(p) ==
    /\ runs < MaxRuns
    /\ pc[p] = "idle"
    /\ Load(p)

\* main(), first step: check_existing_pull_request(PR_TITLE)
CheckExisting(p) ==
    /\ pc[p] = "check"
    /\ \E r \in ListResponses(open) :
         LET exists == check_existing_pull_request(PR_TITLE, r)
         IN  /\ calls' = [calls EXCEPT ![p] =
                    Append(@, get_pull_requests_call(GITHUB_REPO[p], "open"))]
             /\ resp' = [resp EXCEPT ![p].list = r]
             /\ log' = [log EXCEPT ![p] = @ \cup exists.msgs]
             /\ pc' = [pc EXCEPT ![p] =
                    IF exists.raised \/ exists.value = TRUE THEN "done" ELSE "compare"]
             /\ exitCode' = [exitCode EXCEPT ![p] =
                    IF exists.raised THEN 1 ELSE IF exists.value = TRUE THEN 0 ELSE -1]
             /\ faithful' = (faithful /\ (r.kind = "ok" => r.body = JList(open)))
    /\ UNCHANGED <<env, open, nCreated, runs, GITHUB_TOKEN, GITHUB_REPO, accepted>>

\* main(), second step: has_commits_to_backport(BRANCH_FROM, BRANCH_TO)
CheckDivergence(p) ==
    /\ pc[p] = "compare"
    /\ \E r \in CompareResponses :
         LET has == has_commits_to_backport(r)
         IN  /\ calls' = [calls EXCEPT ![p] =
                    Append(@, has_commits_to_backport_call(GITHUB_REPO[p], BRANCH_FROM, BRANCH_TO))]
             /\ resp' = [resp EXCEPT ![p].compare = r]
             /\ log' = [log EXCEPT ![p] = @ \cup has.msgs]
             /\ pc' = [pc EXCEPT ![p] =
                    IF has.raised \/ has.value = FALSE THEN "done" ELSE "create"]
             /\ exitCode' = [exitCode EXCEPT ![p] =
                    IF has.raised THEN 1 ELSE IF has.value = FALSE THEN 0 ELSE -1]
    /\ UNCHANGED <<env, open, nCreated, runs, GITHUB_TOKEN, GITHUB_REPO, accepted, faithful>>

\* variant: the create step looks at the platform again and is skipped when
\* a request with the title has been opened in the meantime
CreateRequest_coordinated(p) ==
    /\ pc[p] = "create"
    /\ IF \E i \in DOMAIN open : "title" \in open[i].keys /\ open[i].title = PR_TITLE
       THEN /\ pc' = [pc EXCEPT ![p] = "done"]
            /\ exitCode' = [exitCode EXCEPT ![p] = 0]
            /\ UNCHANGED <<calls, resp, log, open, nCreated, accepted>>
       ELSE \E r \in CreateResponses :
         LET done == create_backport_pull_request(r)
             call == create_backport_pull_request_call(GITHUB_REPO[p], BRANCH_FROM, BRANCH_TO)
             took == r.kind = "ok"
         IN  /\ calls' = [calls EXCEPT ![p] = Append(@, call)]
             /\ resp' = [resp EXCEPT ![p].create = r]
             /\ log' = [log EXCEPT ![p] = @ \cup done.msgs]
             /\ open' = IF took THEN <<Summary(call.json[1].title)>> \o open ELSE open
             /\ nCreated' = IF took THEN nCreated + 1 ELSE nCreated
             /\ accepted' = [accepted EXCEPT ![p] = IF took THEN @ + 1 ELSE @]
             /\ pc' = [pc EXCEPT ![p] = "done"]
             /\ exitCode' = [exitCode EXCEPT ![p] = IF done.raised THEN 1 ELSE 0]
    /\ UNCHANGED <<env, runs, GITHUB_TOKEN, GITHUB_REPO, faithful>>

\* main(), third step: create_backport_pull_request(BRANCH_FROM, BRANCH_TO)
CreateRequest(p) ==
    /\ pc[p] = "create"
    /\ \E r \in CreateResponses :
         LET done == create_backport_pull_request(r)
             call == create_backport_pull_request_call(GITHUB_REPO[p], BRANCH_FROM, BRANCH_TO)
             took == r.kind = "ok"
         IN  /\ calls' = [calls EXCEPT ![p] = Append(@, call)]
             /\ resp' = [resp EXCEPT ![p].create = r]
             /\ log' = [log EXCEPT ![p] = @ \cup done.msgs]
             /\ open' = IF took THEN <<Summary(call.json[1].title)>> \o open ELSE open
             /\ nCreated' = IF took THEN nCreated + 1 ELSE nCreated
             /\ accepted' = [accepted EXCEPT ![p] = IF took THEN @ + 1 ELSE @]
             /\ pc' = [pc EXCEPT ![p] = "done"]
             /\ exitCode' = [exitCode EXCEPT ![p] = IF done.raised THEN 1 ELSE 0]
    /\ UNCHANGED <<env, runs, GITHUB_TOKEN, GITHUB_REPO, faithful>>

\* the process has exited: nothing of it remains
Exit(p) ==
    /\ pc[p] = "done"
    /\ pc' = [pc EXCEPT ![p] = "idle"]
    /\ exitCode' = [exitCode EXCEPT ![p] = -1]
    /\ GITHUB_TOKEN' = [GITHUB_TOKEN EXCEPT ![p] = ""]
    /\ GITHUB_REPO' = [GITHUB_REPO EXCEPT ![p] = ""]
    /\ calls' = [calls EXCEPT ![p] = <<>>]
    /\ resp' = [resp EXCEPT ![p] = NoResponses]
    /\ log' = [log EXCEPT ![p] = {}]
    /\ accepted' = [accepted EXCEPT ![p] = 0]
    /\ UNCHANGED <<env, open, nCreated, runs, faithful>>

Next ==
    \E p \in Procs :
        \/ Start(p)
        \/ CheckExisting(p)
        \/ CheckDivergence(p)
        \/ CreateRequest(p)
        \/ Exit(p)

Spec == Init /\ [][Next]_vars

NextConcurrent ==
    \E p \in Procs :
        \/ StartConcurrently(p)
        \/ CheckExisting(p)
        \/ CheckDivergence(p)
        \/ CreateRequest(p)
        \/ Exit(p)

\* overlapping invocations of one workflow share its configuration, here the
\* one with which the script gets past its assertions; the platform starts
\* with request summaries only
InitConcurrent ==
    /\ Init
    /\ env = [token |-> "set", repo |-> "set"]
    /\ \A i \in DOMAIN open : {"title", "number"} \subseteq open[i].keys

SpecConcurrent == InitConcurrent /\ [][NextConcurrent]_vars

(* ------------------------- vocabulary of the claims -------------------- *)
IsCanonical(pr) == "title" \in pr.keys /\ pr.title = PR_TITLE
IsSummary(pr) == {"title", "number"} \subseteq pr.keys
Canonicals(prs) == {i \in DOMAIN prs : IsCanonical(prs[i])}

\* the list call of p was answered 2xx with a JSON list of request summaries
ListedSummaries(p) ==
    /\ resp[p].list.kind = "ok"
    /\ resp[p].list.body.type = "list"
    /\ \A i \in DOMAIN resp[p].list.body.items : IsSummary(resp[p].list.body.items[i])
Listed(p) == resp[p].list.body.items

\* the compare call of p was answered 2xx with a JSON object carrying a status
Compared(p) ==
    /\ resp[p].compare.kind = "ok"
    /\ resp[p].compare.body.type = "dict"
    /\ "status" \in resp[p].compare.body.keys
Comparison(p) == resp[p].compare.body
CommitsAhead(p) == "commits" \in Comparison(p).keys /\ Comparison(p).commits > 0

CreateCalls(p) == {i \in DOMAIN calls[p] : calls[p][i].method = "POST"}
UrlOf(p, endpoint) == "https://api.github.com/repos/" \o GITHUB_REPO[p] \o "/" \o endpoint

\* the pull requests that were open before any invocation ran
InitialOpen == SubSeq(open, nCreated + 1, Len(open))

(* ------------------------------- claims -------------------------------- *)
\* C1: a run whose list of open requests (request summaries: objects with a
\* title and a number) holds no request titled exactly
\* PR_TITLE asks for the comparison, and when the comparison is ahead or
\* diverged with a non-empty commit list the run issues exactly one create
\* call, with title PR_TITLE, head main and base develop.
C1_CreatesExactlyOnce ==
    \A p \in Procs :
        (ListedSummaries(p) /\ Canonicals(Listed(p)) = {})
        => /\ pc[p] = "done" => resp[p].compare.kind # "none"
           /\ ( /\ pc[p] = "done"
                /\ Compared(p) /\ Comparison(p).status \in {"ahead", "diverged"}
                /\ CommitsAhead(p) )
              => /\ Cardinality(CreateCalls(p)) = 1
                 /\ \A i \in CreateCalls(p) :
                      /\ calls[p][i].json[1].title = "[bot] backport main to develop"
                      /\ calls[p][i].json[1].head = "main"
                      /\ calls[p][i].json[1].base = "develop"

C1_Witness ==
    \E p \in Procs :
        /\ pc[p] = "done"
        /\ ListedSummaries(p) /\ Canonicals(Listed(p)) = {} /\ Len(Listed(p)) = 2
        /\ Listed(p)[1].title # Listed(p)[2].title
        /\ Compared(p) /\ Comparison(p).status = "diverged" /\ CommitsAhead(p)
        /\ Cardinality(CreateCalls(p)) = 1

\* C2: a run whose list of open requests (request summaries: objects with a
\* title and a number) holds a request titled exactly PR_TITLE is a no-op: no
\* compare call, no create call, exit status 0.
C2_ExistingIsNoOp ==
    \A p \in Procs :
        (ListedSummaries(p) /\ Canonicals(Listed(p)) # {})
        => /\ pc[p] = "done"
           /\ exitCode[p] = 0
           /\ Len(calls[p]) = 1
           /\ accepted[p] = 0

C2_Witness ==
    \E p \in Procs :
        /\ ListedSummaries(p) /\ Canonicals(Listed(p)) = {2}
        /\ pc[p] = "done" /\ exitCode[p] = 0

\* C3: when the comparison is identical or behind, or is ahead or diverged
\* with the commit list empty or absent, the run issues no create call and
\* exits with status 0.
C3_NothingToBackport ==
    \A p \in Procs :
        ( /\ Compared(p)
          /\ \/ Comparison(p).status \in {"identical", "behind"}
             \/ Comparison(p).status \in {"ahead", "diverged"} /\ ~CommitsAhead(p) )
        => /\ pc[p] = "done"
           /\ exitCode[p] = 0
           /\ CreateCalls(p) = {}
           /\ accepted[p] = 0

C3_Witness ==
    \E p \in Procs :
        /\ Compared(p) /\ Comparison(p).status = "behind" /\ CommitsAhead(p)
        /\ pc[p] = "done" /\ exitCode[p] = 0 /\ Len(calls[p]) = 2

\* C4: runs executed one after another, from a platform with no open request
\* titled PR_TITLE and with every list call answered by the open requests,
\* create at most one request, and at most one request titled PR_TITLE is
\* open at any moment.
C4_SequentialIdempotence ==
    (Canonicals(InitialOpen) = {} /\ faithful)
    => /\ nCreated <= 1
       /\ Cardinality(Canonicals(open)) <= 1

C4_Witness ==
    /\ Canonicals(InitialOpen) = {} /\ faithful
    /\ nCreated = 1 /\ runs = 2
    /\ \E p \in Procs :
        /\ pc[p] = "done" /\ exitCode[p] = 0 /\ accepted[p] = 0
        /\ ListedSummaries(p) /\ Canonicals(Listed(p)) = {1}

\* C5: with the credential absent or empty, or the repository identifier
\* absent or empty, the process aborts with a non-zero exit status before any
\* network call.
C5_MissingConfigAborts ==
    \A p \in Procs :
        (pc[p] # "idle" /\ (env.token \in {None, ""} \/ env.repo \in {None, ""}))
        => pc[p] = "done" /\ exitCode[p] # 0 /\ calls[p] = <<>>

\* C6: a call answered by a non-2xx response or failing in transport ends
\* the run: it is the last call of the run, the exit status is non-zero, and
\* a 403 leaves the permission hint in the output.
FatalAt(p, r, n) ==
    r \in Failures
    => /\ pc[p] = "done"
       /\ exitCode[p] # 0
       /\ Len(calls[p]) = n
       /\ (r.code = 403 => HINT_403 \in log[p])

C6_ApiFailureIsFatal ==
    \A p \in Procs :
        /\ FatalAt(p, resp[p].list, 1)
        /\ FatalAt(p, resp[p].compare, 2)
        /\ FatalAt(p, resp[p].create, 3)

C6_Witness ==
    \E p \in Procs :
        /\ resp[p].create = HttpError(403)
        /\ pc[p] = "done" /\ exitCode[p] = 1 /\ Len(calls[p]) = 3
        /\ HINT_403 \in log[p]

\* C7: overlapping runs are not coordinated: a run that has passed both checks
\* issues its create call with title PR_TITLE whatever the other run has done
\* in the meantime, so both runs can pass the check before either creates and
\* then both create (C7_Witness).
C7_CreateIsUncoordinated ==
    [][\A p \in Procs :
         (pc[p] = "create" /\ pc'[p] # "create")
         => /\ Len(calls'[p]) = Len(calls[p]) + 1
            /\ calls'[p][Len(calls'[p])].method = "POST"
            /\ calls'[p][Len(calls'[p])].json[1].title = PR_TITLE]_vars

C7_Witness ==
    /\ \A p \in Procs :
        /\ ListedSummaries(p) /\ Canonicals(Listed(p)) = {}
        /\ Cardinality(CreateCalls(p)) = 1
        /\ accepted[p] = 1
    /\ Cardinality(Canonicals(open)) = 2

\* C8: the calls of a run are, in this order and each at most once, the list
\* call, the compare call with base develop and head main, and the create
\* call; the compare call follows a list call that succeeded without a
\* match, the create call a compare call that reported commits to backport.
C8_CallOrder ==
    \A p \in Procs :
        /\ Len(calls[p]) <= 3
        /\ Len(calls[p]) >= 1 =>
            /\ calls[p][1].method = "GET"
            /\ calls[p][1].url = UrlOf(p, "pulls?state=open")
        /\ Len(calls[p]) >= 2 =>
            /\ calls[p][2].method = "GET"
            /\ calls[p][2].url = UrlOf(p, "compare/develop...main")
            /\ resp[p].list.kind = "ok" /\ resp[p].list.body.type # "text"
            /\ Canonicals(Listed(p)) = {}
        /\ Len(calls[p]) >= 3 =>
            /\ calls[p][3].method = "POST"
            /\ calls[p][3].url = UrlOf(p, "pulls")
            /\ Compared(p) /\ Comparison(p).status \notin {"identical", "behind"}
            /\ CommitsAhead(p)

C8_Witness ==
    \E p \in Procs : Len(calls[p]) = 3 /\ pc[p] = "done"

\* C9: a run that ends with a non-zero exit status has created no request,
\* whatever the create call was answered.
C9_ExitReflectsCreation ==
    \A p \in Procs :
        (pc[p] = "done" /\ exitCode[p] # 0) => accepted[p] = 0

\* C10: a 2xx answer to the list call whose JSON body is not a list is no
\* error: the run goes on to the compare call, and to the create call when
\* the comparison reports commits, as with no open requests.
C10_NonListIsEmpty ==
    \A p \in Procs :
        (resp[p].list.kind = "ok" /\ resp[p].list.body.type = "dict")
        => /\ Len(calls[p]) = 1 => (pc[p] = "compare" /\ exitCode[p] = -1)
           /\ Len(calls[p]) >= 2 => resp[p].compare.kind # "none"
           /\ ( /\ Compared(p) /\ Comparison(p).status \in {"ahead", "diverged"}
                /\ CommitsAhead(p) )
              => (pc[p] = "create" \/ Cardinality(CreateCalls(p)) = 1)
           /\ (log[p] = {} \/ resp[p].compare \in Failures \/ resp[p].create \in Failures)

C10_Witness ==
    \E p \in Procs :
        /\ resp[p].list.kind = "ok" /\ resp[p].list.body.type = "dict"
        /\ open # <<>>
        /\ Cardinality(CreateCalls(p)) = 1 /\ accepted[p] = 1 /\ exitCode[p] = 0

====
